---- MODULE Spec2Model ----
(***************************************************************************)
(* ShuffleNetV2 (neural/models/classification/shufflenetv2.py).            *)
(*                                                                         *)
(* A module of the network is a record tagged by `type`; a tensor is a     *)
(* record [shape, data, gen, err, at].  `shape` is the tensor's size,      *)
(* `data` its elements in row-major order when the contents are tracked    *)
(* (<<>> when only the shape is), `gen` the number of operations that      *)
(* produced tracked values so far, `err` the exception raised ("" when     *)
(* none) and `at` the module type that raised it.                          *)
(*                                                                         *)
(* A tracked element is [id, deps]: id names the value, deps is the set of *)
(* ids of the values it was computed from (itself included).               *)
(***************************************************************************)
EXTENDS Integers, Sequences, FiniteSets, TLC

VARIABLES
    status,     \* "new" | "built" | "running" | "done" | "failed"
    args,       \* the arguments the model was constructed with
    model,      \* the constructed module
    training,   \* nn.Module.training of the model (TRUE after construction)
    input,      \* the tensor given to forward
    x,          \* the tensor flowing through forward
    pos,        \* number of units of the model already applied
    groupsSeq   \* the groups arguments of the channel_shuffle calls made

vars == <<status, args, model, training, input, x, pos, groupsSeq>>

(***************************************************************************)
(* Bounds of the model.                                                    *)
(***************************************************************************)
\* batch sizes 1..MaxBatch
MaxBatch == 2
\* block_depth entries of a hand-built network: -1..MaxDepth
MaxDepth == 2
\* height and width of a shuffled tensor: 1..MaxSide
MaxSide == 2
\* channels of a shuffled tensor, and groups arguments: 1..MaxChannels
MaxChannels == 8
\* channel_shuffle calls in a row
MaxShuffles == 2
\* make_layer on its own: in_channels 1..MaxStageIn,
\* out_channels 2..MaxStageOut, depth -1..MaxStageDepth
MaxStageIn == 2
MaxStageOut == 6
MaxStageDepth == 3

None == [type |-> "None"]

(***************************************************************************)
(* Tensors.                                                                *)
(***************************************************************************)
RECURSIVE Prod(_)
Prod(s) == IF s = <<>> THEN 1 ELSE Head(s) * Prod(Tail(s))

Tensor(shape, data, gen) ==
    [shape |-> shape, data |-> data, gen |-> gen, err |-> "", at |-> ""]

Raise(err, at) ==
    [shape |-> <<>>, data |-> <<>>, gen |-> 0, err |-> err, at |-> at]

Failed(t) == t.err # ""

Tracked(t) == t.data # <<>>

Element(gen, i, deps) == [id |-> <<gen, i>>, deps |-> deps \cup {<<gen, i>>}]

\* A tensor whose elements are the fresh values <<0, 0>>, <<0, 1>>, ...
FreshTensor(shape) ==
    Tensor(shape, [i \in 1..Prod(shape) |-> Element(0, i - 1, {})], 0)

ShapeTensor(shape) == Tensor(shape, <<>>, 0)

\* Each element replaced by a new value computed from it alone.
Elementwise(t) ==
    IF Tracked(t)
    THEN Tensor(t.shape,
                [i \in 1..Len(t.data) |->
                    Element(t.gen + 1, i - 1, t.data[i].deps)],
                t.gen + 1)
    ELSE t

\* Output size of a sliding window: floor((n + 2p - k) / s) + 1.
WindowOut(n, k, p, s) == ((n + 2 * p - k) \div s) + 1

(***************************************************************************)
(* The primitives of torch.nn the source composes.                         *)
(***************************************************************************)
Conv2d(in_channels, out_channels, kernel_size, padding, stride, groups) ==
    [type |-> "Conv2d", in_channels |-> in_channels,
     out_channels |-> out_channels, kernel_size |-> kernel_size,
     padding |-> padding, stride |-> stride, groups |-> groups]

BatchNorm2d(num_features) ==
    [type |-> "BatchNorm2d", num_features |-> num_features]

ReLU == [type |-> "ReLU"]

MaxPool2d(kernel_size, stride, padding) ==
    [type |-> "MaxPool2d", kernel_size |-> kernel_size, stride |-> stride,
     padding |-> padding]

AdaptiveAvgPool2d(output_size) ==
    [type |-> "AdaptiveAvgPool2d", output_size |-> output_size]

Flatten == [type |-> "Flatten"]

Linear(in_features, out_features) ==
    [type |-> "Linear", in_features |-> in_features,
     out_features |-> out_features]

\* nn.Sequential(*mods), and nn.Sequential(OrderedDict(names, mods)).
Sequential(mods) == [type |-> "Sequential", names |-> <<>>, mods |-> mods]

NamedSequential(names, mods) ==
    [type |-> "Sequential", names |-> names, mods |-> mods]

\* The values of a convolution's output at spatial size 1x1: output channel o
\* of batch entry b is computed from the input channels of o's group.
Conv2dData(m, t) ==
    LET B == t.shape[1]
        inPer == m.in_channels \div m.groups
        outPer == m.out_channels \div m.groups
        src(b, o) == {b * m.in_channels + (o \div outPer) * inPer + c + 1 :
                        c \in 0..(inPer - 1)}
    IN  [i \in 1..(B * m.out_channels) |->
            Element(t.gen + 1, i - 1,
                    UNION {t.data[j].deps :
                             j \in src((i - 1) \div m.out_channels,
                                       (i - 1) % m.out_channels)})]

Conv2dForward(m, t) ==
    LET B == t.shape[1]
        C == t.shape[2]
        H == t.shape[3]
        W == t.shape[4]
        k == m.kernel_size
        p == m.padding
        s == m.stride
        out == <<B, m.out_channels, WindowOut(H, k, p, s), WindowOut(W, k, p, s)>>
    IN  IF C # m.in_channels THEN Raise("channels", "Conv2d")
        ELSE IF H + 2 * p < k \/ W + 2 * p < k THEN Raise("size", "Conv2d")
        ELSE IF Tracked(t) /\ H = 1 /\ W = 1
             THEN Tensor(out, Conv2dData(m, t), t.gen + 1)
             ELSE ShapeTensor(out)

\* In training mode batch statistics need more than one value per channel.
BatchNorm2dForward(m, t, train) ==
    LET B == t.shape[1]
        C == t.shape[2]
        H == t.shape[3]
        W == t.shape[4]
    IN  IF train /\ B * H * W = 1 THEN Raise("one value", "BatchNorm2d")
        ELSE IF C # m.num_features THEN Raise("channels", "BatchNorm2d")
        ELSE Elementwise(t)

MaxPool2dForward(m, t) ==
    LET B == t.shape[1]
        C == t.shape[2]
        H == WindowOut(t.shape[3], m.kernel_size, m.padding, m.stride)
        W == WindowOut(t.shape[4], m.kernel_size, m.padding, m.stride)
    IN  IF H < 1 \/ W < 1 THEN Raise("size", "MaxPool2d")
        ELSE ShapeTensor(<<B, C, H, W>>)

AdaptiveAvgPool2dForward(m, t) ==
    IF t.shape[3] < 1 \/ t.shape[4] < 1
    THEN Raise("size", "AdaptiveAvgPool2d")
    ELSE ShapeTensor(<<t.shape[1], t.shape[2], m.output_size, m.output_size>>)

FlattenForward(t) ==
    ShapeTensor(<<t.shape[1], Prod(Tail(t.shape))>>)

LinearForward(m, t) ==
    IF t.shape[Len(t.shape)] # m.in_features THEN Raise("features", "Linear")
    ELSE ShapeTensor(SubSeq(t.shape, 1, Len(t.shape) - 1) \o <<m.out_features>>)

(***************************************************************************)
(* Tensor operations used by InvertedResidualBlock.forward and             *)
(* channel_shuffle.  Element (b, c, h, w) of a tensor of shape             *)
(* <<B, C, H, W>> is data[((b * C + c) * H + h) * W + w + 1].              *)
(***************************************************************************)
Max(a, b) == IF a >= b THEN a ELSE b

\* Channels start .. start + length - 1 of t (a slice along dim 1).
Narrow(t, start, length) ==
    LET C == t.shape[2]
        HW == t.shape[3] * t.shape[4]
        shape == <<t.shape[1], length, t.shape[3], t.shape[4]>>
    IN  IF Tracked(t)
        THEN Tensor(shape,
                    [i \in 1..Prod(shape) |->
                        t.data[((i - 1) \div (length * HW)) * C * HW
                               + start * HW + ((i - 1) % (length * HW)) + 1]],
                    t.gen)
        ELSE ShapeTensor(shape)

\* input.chunk(chunks, dim=1): pieces of ceil(C / chunks) channels, the last
\* one shorter; fewer than `chunks` pieces when C is too small.
chunk(t, chunks) ==
    LET C == t.shape[2]
        size == (C + chunks - 1) \div chunks
        n == IF size = 0 THEN 0 ELSE (C + size - 1) \div size
    IN  [i \in 1..n |->
            Narrow(t, (i - 1) * size,
                   IF i * size <= C THEN size ELSE C - (i - 1) * size)]

\* torch.cat([l, r], dim=1).
cat(l, r) ==
    LET Cl == l.shape[2]
        Cr == r.shape[2]
        HW == l.shape[3] * l.shape[4]
        shape == <<l.shape[1], Cl + Cr, l.shape[3], l.shape[4]>>
    IN  IF \/ Len(l.shape) # Len(r.shape)
           \/ l.shape[1] # r.shape[1]
           \/ l.shape[3] # r.shape[3]
           \/ l.shape[4] # r.shape[4]
        THEN Raise("sizes", "cat")
        ELSE IF Tracked(l) /\ Tracked(r)
        THEN Tensor(shape,
                    [i \in 1..Prod(shape) |->
                        LET b == (i - 1) \div ((Cl + Cr) * HW)
                            rem == (i - 1) % ((Cl + Cr) * HW)
                        IN  IF rem < Cl * HW
                            THEN l.data[b * Cl * HW + rem + 1]
                            ELSE r.data[b * Cr * HW + (rem - Cl * HW) + 1]],
                    Max(l.gen, r.gen))
        ELSE ShapeTensor(shape)

\* x.reshape(shape): the same elements in the same order under a new shape.
reshape(t, shape) ==
    IF Prod(shape) # Prod(t.shape) THEN Raise("shape", "reshape")
    ELSE [t EXCEPT !.shape = shape]

\* Mutant: the two dimensions swapped in the shape only, the elements left in
\* their old order.
transpose_view(t) ==
    [t EXCEPT !.shape = <<t.shape[1], t.shape[3], t.shape[2], t.shape[4],
                          t.shape[5]>>]

\* x.transpose(1, 2) of a 5-dimensional tensor <<B, P, Q, H, W>>.
transpose(t) ==
    LET P == t.shape[2]
        Q == t.shape[3]
        HW == t.shape[4] * t.shape[5]
        shape == <<t.shape[1], Q, P, t.shape[4], t.shape[5]>>
    IN  IF Tracked(t)
        THEN Tensor(shape,
                    [i \in 1..Prod(shape) |->
                        LET n == (i - 1) \div (P * Q * HW)
                            r == (i - 1) % (P * Q * HW)
                            q == r \div (P * HW)
                            pp == (r % (P * HW)) \div HW
                            hw == r % HW
                        IN  t.data[n * P * Q * HW + pp * Q * HW + q * HW
                                   + hw + 1]],
                    t.gen)
        ELSE ShapeTensor(shape)

\* Mutant: the channel axis viewed as (C/g, g) instead of (g, C/g).
channel_shuffle_swapped(t, groups) ==
    LET batch_size == t.shape[1]
        channels == t.shape[2]
        height == t.shape[3]
        width == t.shape[4]
        grouped == reshape(t, <<batch_size, channels \div groups, groups,
                                height, width>>)
    IN  IF Failed(grouped) THEN grouped
        ELSE reshape(transpose(grouped),
                     <<batch_size, channels, height, width>>)

channel_shuffle(t, groups) ==
    LET batch_size == t.shape[1]
        channels == t.shape[2]
        height == t.shape[3]
        width == t.shape[4]
        grouped == reshape(t, <<batch_size, groups, channels \div groups,
                                height, width>>)
    IN  IF Failed(grouped) THEN grouped
        ELSE reshape(transpose(grouped),
                     <<batch_size, channels, height, width>>)

(***************************************************************************)
(* The modules the source builds.                                          *)
(***************************************************************************)
ConvBlock(in_channels, out_channels, kernel_size, padding, stride, use_relu) ==
    Sequential(
        <<Conv2d(in_channels, out_channels, kernel_size, padding, stride, 1),
          BatchNorm2d(out_channels)>>
        \o (IF use_relu THEN <<ReLU>> ELSE <<>>))

DSConvBlock(in_channels, out_channels, kernel_size, padding, stride, use_relu) ==
    Sequential(
        <<Conv2d(in_channels, in_channels, kernel_size, padding, stride,
                 in_channels),
          BatchNorm2d(in_channels),
          Conv2d(in_channels, out_channels, 1, 0, 1, 1),
          BatchNorm2d(out_channels)>>
        \o (IF use_relu THEN <<ReLU>> ELSE <<>>))

\* Mutant: the right branch's first convolution always takes in_channels.
InvertedResidualBlock_nosplit(in_channels, out_channels, stride) ==
    LET branch_channels == out_channels \div 2
    IN  [type |-> "InvertedResidualBlock",
         left |-> IF stride > 1
                  THEN DSConvBlock(in_channels, branch_channels, 3, 1, stride,
                                   TRUE)
                  ELSE None,
         right |-> Sequential(
             <<ConvBlock(in_channels, branch_channels, 1, 0, 1, TRUE),
               DSConvBlock(branch_channels, branch_channels, 3, 1, stride,
                           TRUE)>>)]

InvertedResidualBlock(in_channels, out_channels, stride) ==
    LET branch_channels == out_channels \div 2
    IN  [type |-> "InvertedResidualBlock",
         left |-> IF stride > 1
                  THEN DSConvBlock(in_channels, branch_channels, 3, 1, stride,
                                   TRUE)
                  ELSE None,
         right |-> Sequential(
             <<ConvBlock(IF stride > 1 THEN in_channels ELSE branch_channels,
                         branch_channels, 1, 0, 1, TRUE),
               DSConvBlock(branch_channels, branch_channels, 3, 1, stride,
                           TRUE)>>)]

\* Mutant: range(depth) instead of range(1, depth).
make_layer_range0(in_channels, out_channels, depth, stride) ==
    Sequential(
        <<InvertedResidualBlock(in_channels, out_channels, stride)>>
        \o [i \in 1..(IF depth > 0 THEN depth ELSE 0) |->
                InvertedResidualBlock(out_channels, out_channels, 1)])

\* range(1, depth) is empty when depth <= 1.
make_layer(in_channels, out_channels, depth, stride) ==
    Sequential(
        <<InvertedResidualBlock(in_channels, out_channels, stride)>>
        \o [i \in 1..(IF depth > 1 THEN depth - 1 ELSE 0) |->
                InvertedResidualBlock(out_channels, out_channels, 1)])

\* Mutant: the head without its max-pool.
ShuffleNetV2_nopool(in_channels, num_classes, block_depth, block_channels) ==
    LET features == NamedSequential(
            <<"head", "layer1", "layer2", "layer3", "tail">>,
            <<Sequential(
                  <<ConvBlock(in_channels, block_channels[1], 3, 1, 2, TRUE)>>),
              make_layer(block_channels[1], block_channels[2],
                         block_depth[1], 2),
              make_layer(block_channels[2], block_channels[3],
                         block_depth[2], 2),
              make_layer(block_channels[3], block_channels[4],
                         block_depth[3], 2),
              ConvBlock(block_channels[4], block_channels[5], 1, 0, 1, TRUE)>>)
        classifier == Sequential(
            <<AdaptiveAvgPool2d(1), Flatten,
              Linear(block_channels[5], num_classes)>>)
    IN  NamedSequential(<<"features", "classifier">>,
                        <<features, classifier>>)

\* Mutant: the head's convolution without padding.
ShuffleNetV2_nopad(in_channels, num_classes, block_depth, block_channels) ==
    LET features == NamedSequential(
            <<"head", "layer1", "layer2", "layer3", "tail">>,
            <<Sequential(
                  <<ConvBlock(in_channels, block_channels[1], 3, 0, 2, TRUE),
                    MaxPool2d(3, 2, 1)>>),
              make_layer(block_channels[1], block_channels[2],
                         block_depth[1], 2),
              make_layer(block_channels[2], block_channels[3],
                         block_depth[2], 2),
              make_layer(block_channels[3], block_channels[4],
                         block_depth[3], 2),
              ConvBlock(block_channels[4], block_channels[5], 1, 0, 1, TRUE)>>)
        classifier == Sequential(
            <<AdaptiveAvgPool2d(1), Flatten,
              Linear(block_channels[5], num_classes)>>)
    IN  NamedSequential(<<"features", "classifier">>,
                        <<features, classifier>>)

ShuffleNetV2(in_channels, num_classes, block_depth, block_channels) ==
    LET features == NamedSequential(
            <<"head", "layer1", "layer2", "layer3", "tail">>,
            <<Sequential(
                  <<ConvBlock(in_channels, block_channels[1], 3, 1, 2, TRUE),
                    MaxPool2d(3, 2, 1)>>),
              make_layer(block_channels[1], block_channels[2],
                         block_depth[1], 2),
              make_layer(block_channels[2], block_channels[3],
                         block_depth[2], 2),
              make_layer(block_channels[3], block_channels[4],
                         block_depth[3], 2),
              ConvBlock(block_channels[4], block_channels[5], 1, 0, 1, TRUE)>>)
        classifier == Sequential(
            <<AdaptiveAvgPool2d(1), Flatten,
              Linear(block_channels[5], num_classes)>>)
    IN  NamedSequential(<<"features", "classifier">>,
                        <<features, classifier>>)

\* The arguments of a ShuffleNetV2(...) call.
Args(in_channels, num_classes, block_depth, block_channels) ==
    [in_channels |-> in_channels, num_classes |-> num_classes,
     block_depth |-> block_depth, block_channels |-> block_channels]

New(a) ==
    ShuffleNetV2(a.in_channels, a.num_classes, a.block_depth,
                 a.block_channels)

\* The presets: each returns New(...) of these arguments.
shufflenetv2_x0_5(in_channels, num_classes) ==
    Args(in_channels, num_classes, <<4, 8, 4>>, <<24, 48, 96, 192, 1024>>)

shufflenetv2_x1_0(in_channels, num_classes) ==
    Args(in_channels, num_classes, <<4, 8, 4>>, <<24, 116, 232, 464, 1024>>)

shufflenetv2_x1_5(in_channels, num_classes) ==
    Args(in_channels, num_classes, <<4, 8, 4>>, <<24, 176, 352, 704, 1024>>)

shufflenetv2_x2_0(in_channels, num_classes) ==
    Args(in_channels, num_classes, <<4, 8, 4>>, <<24, 244, 488, 976, 2048>>)

(***************************************************************************)
(* forward.                                                                *)
(***************************************************************************)
RECURSIVE Forward(_, _, _)
RECURSIVE SequentialForward(_, _, _)

\* Mutant: the block returns the concatenation without shuffling it.
InvertedResidualBlockForward_noshuffle(m, t, train) ==
    IF m.left.type = "None"
    THEN LET parts == chunk(t, 2)
         IN  IF Len(parts) # 2 THEN Raise("unpack", "InvertedResidualBlock")
             ELSE LET left == parts[1]
                      right == Forward(m.right, parts[2], train)
                  IN  IF Failed(right) THEN right ELSE cat(left, right)
    ELSE LET left == Forward(m.left, t, train)
         IN  IF Failed(left) THEN left
             ELSE LET right == Forward(m.right, [t EXCEPT !.gen = left.gen],
                                       train)
                  IN  IF Failed(right) THEN right ELSE cat(left, right)

\* Mutant: the halves of the chunk taken in the other order (right, left).
InvertedResidualBlockForward_swapped(m, t, train) ==
    IF m.left.type = "None"
    THEN LET parts == chunk(t, 2)
         IN  IF Len(parts) # 2 THEN Raise("unpack", "InvertedResidualBlock")
             ELSE LET left == parts[2]
                      right == Forward(m.right, parts[1], train)
                  IN  IF Failed(right) THEN right
                      ELSE LET y == cat(left, right)
                           IN  IF Failed(y) THEN y ELSE channel_shuffle(y, 2)
    ELSE LET left == Forward(m.left, t, train)
         IN  IF Failed(left) THEN left
             ELSE LET right == Forward(m.right, [t EXCEPT !.gen = left.gen],
                                       train)
                  IN  IF Failed(right) THEN right
                      ELSE LET y == cat(left, right)
                           IN  IF Failed(y) THEN y ELSE channel_shuffle(y, 2)

\* InvertedResidualBlock.forward.  The branches run one after the other, so
\* the right branch's values are numbered after the left branch's.
InvertedResidualBlockForward(m, t, train) ==
    IF m.left.type = "None"
    THEN LET parts == chunk(t, 2)
         IN  IF Len(parts) # 2 THEN Raise("unpack", "InvertedResidualBlock")
             ELSE LET left == parts[1]
                      right == Forward(m.right, parts[2], train)
                  IN  IF Failed(right) THEN right
                      ELSE LET y == cat(left, right)
                           IN  IF Failed(y) THEN y ELSE channel_shuffle(y, 2)
    ELSE LET left == Forward(m.left, t, train)
         IN  IF Failed(left) THEN left
             ELSE LET right == Forward(m.right, [t EXCEPT !.gen = left.gen],
                                       train)
                  IN  IF Failed(right) THEN right
                      ELSE LET y == cat(left, right)
                           IN  IF Failed(y) THEN y ELSE channel_shuffle(y, 2)

\* nn.Sequential.forward: the children in order; an exception ends it.
SequentialForward(mods, t, train) ==
    IF mods = <<>> \/ Failed(t) THEN t
    ELSE SequentialForward(Tail(mods), Forward(Head(mods), t, train), train)

Forward(m, t, train) ==
    CASE m.type = "Conv2d" -> Conv2dForward(m, t)
      [] m.type = "BatchNorm2d" -> BatchNorm2dForward(m, t, train)
      [] m.type = "ReLU" -> Elementwise(t)
      [] m.type = "MaxPool2d" -> MaxPool2dForward(m, t)
      [] m.type = "AdaptiveAvgPool2d" -> AdaptiveAvgPool2dForward(m, t)
      [] m.type = "Flatten" -> FlattenForward(t)
      [] m.type = "Linear" -> LinearForward(m, t)
      [] m.type = "Sequential" -> SequentialForward(m.mods, t, train)
      [] m.type = "InvertedResidualBlock" ->
            InvertedResidualBlockForward(m, t, train)

(***************************************************************************)
(* The network: construction, then forward one unit at a time.  The units  *)
(* are the children nn.Sequential.forward applies in order: the head, the  *)
(* blocks of layer1, layer2 and layer3, the tail and the classifier.       *)
(***************************************************************************)
Units(net) ==
    LET features == net.mods[1]
        blocks(i) == [j \in 1..Len(features.mods[i].mods) |->
                        [stage |-> features.names[i], index |-> j,
                         mod |-> features.mods[i].mods[j]]]
    IN  <<[stage |-> "head", index |-> 1, mod |-> features.mods[1]]>>
        \o blocks(2) \o blocks(3) \o blocks(4)
        \o <<[stage |-> "tail", index |-> 1, mod |-> features.mods[5]],
             [stage |-> "classifier", index |-> 1, mod |-> net.mods[2]]>>

Presets(in_channels, num_classes) ==
    {shufflenetv2_x0_5(in_channels, num_classes),
     shufflenetv2_x1_0(in_channels, num_classes),
     shufflenetv2_x1_5(in_channels, num_classes),
     shufflenetv2_x2_0(in_channels, num_classes)}

InChannels == {1, 3}
NumClasses == {1, 10, 1000}
Sizes == {0, 1, 16, 32, 224}
Depths == (-1)..MaxDepth
Widths == {4, 5}

NoTensor == Raise("", "")

InitNet ==
    /\ status = "new"
    /\ args = Args(0, 0, <<>>, <<>>)
    /\ model = None
    /\ training = TRUE
    /\ input = NoTensor
    /\ x = NoTensor
    /\ pos = 0
    /\ groupsSeq = <<>>

\* model = shufflenetv2_xN_M(in_channels, num_classes)
BuildPreset ==
    /\ status = "new"
    /\ \E in_channels \in InChannels, num_classes \in NumClasses :
         \E a \in Presets(in_channels, num_classes) :
            /\ args' = a
            /\ model' = New(a)
    /\ status' = "built"
    /\ UNCHANGED <<training, input, x, pos, groupsSeq>>

\* model = ShuffleNetV2(in_channels, num_classes, block_depth, block_channels)
BuildCustom ==
    /\ status = "new"
    /\ \E block_depth \in [1..3 -> Depths], w \in [1..3 -> Widths] :
         /\ args' = Args(3, 10, block_depth, <<4, w[1], w[2], w[3], 8>>)
         /\ model' = New(args')
    /\ status' = "built"
    /\ UNCHANGED <<training, input, x, pos, groupsSeq>>

\* model.eval() or not, then model(input)
Call ==
    /\ status = "built"
    /\ \E B \in 1..MaxBatch, H \in Sizes, W \in Sizes, train \in BOOLEAN :
         /\ H <= W
         /\ training' = train
         /\ input' = ShapeTensor(<<B, args.in_channels, H, W>>)
         /\ x' = input'
    /\ status' = "running"
    /\ pos' = 0
    /\ UNCHANGED <<args, model, groupsSeq>>

\* The next unit of the network applied to x.
Apply ==
    /\ x' = Forward(Units(model)[pos + 1].mod, x, training)
    /\ pos' = pos + 1
    /\ status' = IF Failed(x') THEN "failed"
                 ELSE IF pos' = Len(Units(model)) THEN "done"
                 ELSE "running"
    /\ UNCHANGED <<args, model, training, input, groupsSeq>>

ForwardHead ==
    /\ status = "running"
    /\ pos = 0
    /\ Apply

ForwardLayer ==
    /\ status = "running"
    /\ pos < Len(Units(model))
    /\ Units(model)[pos + 1].stage \in {"layer1", "layer2", "layer3"}
    /\ Apply

ForwardTail ==
    /\ status = "running"
    /\ pos < Len(Units(model))
    /\ Units(model)[pos + 1].stage = "tail"
    /\ Apply

ForwardClassifier ==
    /\ status = "running"
    /\ pos = Len(Units(model)) - 1
    /\ Apply

NextNet ==
    \/ BuildPreset
    \/ BuildCustom
    \/ Call
    \/ ForwardHead
    \/ ForwardLayer
    \/ ForwardTail
    \/ ForwardClassifier

SpecNet == InitNet /\ [][NextNet]_vars

(***************************************************************************)
(* channel_shuffle on its own: a tensor of fresh values, shuffled with one *)
(* groups argument after another.                                          *)
(***************************************************************************)
InitShuffle ==
    /\ status = "running"
    /\ args = Args(0, 0, <<>>, <<>>)
    /\ model = None
    /\ training = FALSE
    /\ \E B \in 1..MaxBatch, C \in 1..MaxChannels,
          H \in 1..MaxSide, W \in 1..MaxSide :
         input = FreshTensor(<<B, C, H, W>>)
    /\ x = input
    /\ pos = 0
    /\ groupsSeq = <<>>

\* x = channel_shuffle(x, groups)
Shuffle ==
    /\ status = "running"
    /\ Len(groupsSeq) < MaxShuffles
    /\ \E groups \in 1..MaxChannels :
         /\ x' = channel_shuffle(x, groups)
         /\ groupsSeq' = Append(groupsSeq, groups)
    /\ pos' = pos + 1
    /\ status' = IF Failed(x') THEN "failed" ELSE "running"
    /\ UNCHANGED <<args, model, training, input>>

NextShuffle == Shuffle

SpecShuffle == InitShuffle /\ [][NextShuffle]_vars

(***************************************************************************)
(* One stage: make_layer, then forward one block at a time on a tensor of  *)
(* fresh values with one spatial cell, in eval mode.                       *)
(***************************************************************************)
InitStage == InitNet

\* model = make_layer(in_channels, out_channels, depth)
BuildStage ==
    /\ status = "new"
    /\ \E in_channels \in 1..MaxStageIn, out_channels \in 2..MaxStageOut,
          depth \in (-1)..MaxStageDepth :
         /\ args' = Args(in_channels, 0, <<depth>>,
                         <<in_channels, out_channels>>)
         /\ model' = make_layer(in_channels, out_channels, depth, 2)
    /\ status' = "built"
    /\ UNCHANGED <<training, input, x, pos, groupsSeq>>

\* model.eval(); model(input)
CallStage ==
    /\ status = "built"
    /\ training' = FALSE
    /\ input' = FreshTensor(<<1, args.in_channels, 1, 1>>)
    /\ x' = input'
    /\ status' = "running"
    /\ pos' = 0
    /\ UNCHANGED <<args, model, groupsSeq>>

\* The next block of the stage applied to x.
ForwardBlock ==
    /\ status = "running"
    /\ pos < Len(model.mods)
    /\ x' = Forward(model.mods[pos + 1], x, training)
    /\ pos' = pos + 1
    /\ status' = IF Failed(x') THEN "failed"
                 ELSE IF pos' = Len(model.mods) THEN "done"
                 ELSE "running"
    /\ UNCHANGED <<args, model, training, input, groupsSeq>>

NextStage ==
    \/ BuildStage
    \/ CallStage
    \/ ForwardBlock

SpecStage == InitStage /\ [][NextStage]_vars

(***************************************************************************)
(* Properties.                                                             *)
(***************************************************************************)
Started == status \in {"running", "done", "failed"}

IsPreset == args \in Presets(args.in_channels, args.num_classes)

\* The unit applied last, and the one applied next.
LastUnit == Units(model)[pos]

NextUnit == Units(model)[pos + 1]

\* The position of element (b, c, h, w) in the data of a tensor of `shape`.
Index(shape, b, c, h, w) ==
    ((b * shape[2] + c) * shape[3] + h) * shape[4] + w + 1

\* The second components of the ids of the elements of t, in order.
Ids(t) == [i \in 1..Len(t.data) |-> t.data[i].id[2]]

\* ceil(n / 2)
Half(n) == (n + 1) \div 2

\* C1: for every preset, in_channels in {1,3}, num_classes in {1,10,1000} and
\* batch size B >= 1, forward on an input of shape (B, in_channels, 224, 224)
\* fails at no unit (head, layer1..3, tail, classifier) and returns a tensor
\* of shape exactly (B, num_classes).
C1_ForwardShape ==
    (Started /\ IsPreset /\ input.shape[3] = 224 /\ input.shape[4] = 224)
    => /\ status # "failed"
       /\ args.in_channels \in {1, 3}
       /\ args.num_classes \in {1, 10, 1000}
       /\ status = "done"
            => x.shape = <<input.shape[1], args.num_classes>>

C1_Witness ==
    /\ status = "done"
    /\ args = shufflenetv2_x2_0(1, 1000)
    /\ input.shape = <<2, 1, 224, 224>>
    /\ training
    /\ x.shape = <<2, 1000>>

\* The channel count and the downsampling factor after a unit of `stage`.
ChannelsAfter(stage) ==
    CASE stage = "head" -> args.block_channels[1]
      [] stage = "layer1" -> args.block_channels[2]
      [] stage = "layer2" -> args.block_channels[3]
      [] stage = "layer3" -> args.block_channels[4]
      [] stage = "tail" -> args.block_channels[5]

FactorAfter(stage) ==
    CASE stage = "head" -> 4
      [] stage = "layer1" -> 8
      [] stage = "layer2" -> 16
      [] stage = "layer3" -> 32
      [] stage = "tail" -> 32

\* C2: for every preset and every input whose height H and width W are
\* multiples of 32, the tensor is (B, c0, H/4, W/4) after the head,
\* (B, c1, H/8, W/8) after every block of layer1, (B, c2, H/16, W/16) after
\* every block of layer2, (B, c3, H/32, W/32) after every block of layer3 and
\* (B, c4, H/32, W/32) after the tail.
C2_Downsampling ==
    (/\ status \in {"running", "done"}
     /\ IsPreset
     /\ pos >= 1
     /\ LastUnit.stage # "classifier"
     /\ input.shape[3] % 32 = 0
     /\ input.shape[4] % 32 = 0)
    => x.shape = <<input.shape[1],
                   ChannelsAfter(LastUnit.stage),
                   input.shape[3] \div FactorAfter(LastUnit.stage),
                   input.shape[4] \div FactorAfter(LastUnit.stage)>>

C2_Witness ==
    /\ status = "running"
    /\ args = shufflenetv2_x1_5(3, 10)
    /\ pos >= 1
    /\ LastUnit.stage = "tail"
    /\ input.shape = <<1, 3, 32, 224>>
    /\ x.shape = <<1, 1024, 1, 7>>

\* The arguments of the make_layer call that built `stage` of the network.
LayerNo(stage) ==
    CASE stage = "layer1" -> 1 [] stage = "layer2" -> 2 [] stage = "layer3" -> 3

LayerIn(stage) == args.block_channels[LayerNo(stage)]

LayerOut(stage) == args.block_channels[LayerNo(stage) + 1]

LayerDepth(stage) == args.block_depth[LayerNo(stage)]

LayerOf(stage) == model.mods[1].mods[LayerNo(stage) + 1]

\* C5: make_layer(Cin, Cout, d) with d >= 1 and even Cout is exactly d
\* blocks; block 1 is the only one with a left branch (stride 2), takes Cin
\* channels to Cout and each spatial size n to n/2 (ceil(n/2) when n is odd);
\* blocks 2..d have no left branch (stride 1) and keep the Cout channels and
\* the spatial size.  A block applied to a tensor of Cin channels raises
\* nothing but BatchNorm2d's training-mode error on a single value.
C5_StageBlocks ==
    [][(/\ status = "running"
        /\ pos' = pos + 1
        /\ NextUnit.stage \in {"layer1", "layer2", "layer3"}
        /\ LayerDepth(NextUnit.stage) >= 1
        /\ LayerOut(NextUnit.stage) % 2 = 0
        /\ NextUnit.index = 1 => x.shape[2] = LayerIn(NextUnit.stage))
       => LET stage == NextUnit.stage
              blocks == LayerOf(stage).mods
          IN  /\ Len(blocks) = LayerDepth(stage)
              /\ \A i \in 1..Len(blocks) :
                    (blocks[i].left.type # "None") <=> (i = 1)
              /\ blocks[1].left.mods[1].stride = 2
              /\ Failed(x') => x'.err = "one value"
              /\ (~Failed(x') /\ NextUnit.index = 1)
                    => x'.shape = <<x.shape[1], LayerOut(stage),
                                    Half(x.shape[3]), Half(x.shape[4])>>
              /\ (~Failed(x') /\ NextUnit.index > 1)
                    => /\ x.shape[2] = LayerOut(stage)
                       /\ x'.shape = x.shape
      ]_vars

\* The four blocks of make_layer(24, 116, 4) have run on a 56 x 56 map.
C5_Witness ==
    /\ status = "running"
    /\ args = shufflenetv2_x1_0(3, 10)
    /\ pos = 5
    /\ LastUnit.stage = "layer1"
    /\ LastUnit.index = 4
    /\ Len(LayerOf("layer1").mods) = 4
    /\ input.shape = <<2, 3, 224, 224>>
    /\ x.shape = <<2, 116, 28, 28>>

\* C6: a stage built with depth d < 1 fails at construction: no stage (and no
\* network with such a stage) is returned.
C6_DepthBelowOneRejected ==
    (status # "new" /\ \E i \in DOMAIN args.block_depth : args.block_depth[i] < 1)
    => model.type = "None"

\* C7: constructing a ShuffleNetV2 with any of c1, c2, c3 odd fails at
\* construction, before any forward: no network is returned.
C7_OddWidthRejected ==
    (/\ status # "new"
     /\ Len(args.block_channels) = 5
     /\ \E i \in 2..4 : args.block_channels[i] % 2 = 1)
    => model.type = "None"

\* C8 as stated: an input with a height or width below 32 does not come out
\* of forward as logits.
C8_SmallInputFails ==
    (Started /\ (input.shape[3] < 32 \/ input.shape[4] < 32))
    => status # "done"

\* C8 as amended: forward raises a size error exactly when the input's height
\* or width is 0, at the head's convolution, the first operation.  For every
\* H, W >= 1, below 32 included, every spatial size stays >= 1 through the
\* five stride-2 operations and no size error is raised; a preset then
\* returns logits of shape (B, num_classes), unless BatchNorm2d in training
\* mode meets a single value per channel (B = 1 and a 1 x 1 map).
C8_NoCollapse ==
    Started =>
        LET B == input.shape[1]
            H == input.shape[3]
            W == input.shape[4]
        IN  /\ x.err = "size"
                => (H = 0 \/ W = 0) /\ pos = 1 /\ x.at = "Conv2d"
            /\ (pos >= 1 /\ (H = 0 \/ W = 0)) => x.err = "size"
            /\ (~Failed(x) /\ Len(x.shape) = 4 /\ H >= 1 /\ W >= 1)
                => x.shape[3] >= 1 /\ x.shape[4] >= 1
            /\ (IsPreset /\ status = "failed" /\ H >= 1 /\ W >= 1)
                => x.err = "one value" /\ training /\ B = 1
            /\ (IsPreset /\ status = "done")
                => x.shape = <<B, args.num_classes>>

C8_Witness ==
    /\ status = "done"
    /\ args = shufflenetv2_x0_5(3, 10)
    /\ input.shape = <<2, 3, 1, 16>>
    /\ training
    /\ x.shape = <<2, 10>>

\* C3: channel_shuffle(x, g) on C channels, g dividing C, raises nothing,
\* keeps the shape (B, C, H, W), and puts input channel a*(C/g)+b
\* (0 <= a < g, 0 <= b < C/g) at output channel b*g+a in every batch entry
\* and spatial cell; channels [0,1,2,3,4,5] with g = 2 become [0,3,1,4,2,5].
C3_ShufflePermutation ==
    (Len(groupsSeq) = 1 /\ input.shape[2] % groupsSeq[1] = 0)
    => LET g == groupsSeq[1]
           n == input.shape[2] \div g
       IN  /\ ~Failed(x)
           /\ x.shape = input.shape
           /\ \A b \in 0..(input.shape[1] - 1), a \in 0..(g - 1),
                 k \in 0..(n - 1), h \in 0..(input.shape[3] - 1),
                 w \in 0..(input.shape[4] - 1) :
                 x.data[Index(x.shape, b, k * g + a, h, w)]
                   = input.data[Index(input.shape, b, a * n + k, h, w)]
           /\ (input.shape = <<1, 6, 1, 1>> /\ g = 2)
                => Ids(x) = <<0, 3, 1, 4, 2, 5>>

C3_Witness ==
    /\ groupsSeq = <<2>>
    /\ input.shape = <<2, 6, 1, 2>>
    /\ Ids(x) = <<0, 1, 6, 7, 2, 3, 8, 9, 4, 5, 10, 11,
                  12, 13, 18, 19, 14, 15, 20, 21, 16, 17, 22, 23>>

\* C4: channel_shuffle with g groups (g dividing C) and then with C/g groups
\* gives back the original tensor; every successful shuffle is a bijection on
\* the elements; and with C = 6 or C = 8, shuffling with g = 2 twice does not
\* give back the original order.
C4_ShuffleInverse ==
    /\ (/\ Len(groupsSeq) = 2
        /\ input.shape[2] % groupsSeq[1] = 0
        /\ groupsSeq[2] = input.shape[2] \div groupsSeq[1])
       => x = input
    /\ ~Failed(x)
       => /\ Len(x.data) = Len(input.data)
          /\ {x.data[i] : i \in 1..Len(x.data)}
               = {input.data[i] : i \in 1..Len(input.data)}
    /\ (groupsSeq = <<2, 2>> /\ input.shape[2] \in {6, 8})
       => ~Failed(x) /\ x.data # input.data

C4_Witness ==
    /\ groupsSeq = <<2, 3>>
    /\ input.shape = <<1, 6, 1, 1>>
    /\ x = input

\* The output of the stage's first block (the input of its stride-1 blocks).
FirstOut == Forward(model.mods[1], input, training)

IdsOf(data) == {data[i].id : i \in 1..Len(data)}

\* C9: a stride-1 block on C channels (C even, C >= 4) passes input channel j
\* (j < C/2) through untransformed to output channel 2j and puts the right
\* branch's output j, computed from the right half of the input and from
\* nothing of the left half, at output channel 2j+1; so the first C/2 and the
\* last C/2 output channels each hold channels of both branches.
C9_Interleave ==
    [][(/\ status = "running"
        /\ pos >= 1
        /\ pos' = pos + 1
        /\ Len(x.data) % 2 = 0
        /\ Len(x.data) >= 4)
       => LET C == Len(x.data)
              half == C \div 2
              leftIds == IdsOf(SubSeq(x.data, 1, half))
              rightIds == IdsOf(SubSeq(x.data, half + 1, C))
              passed(e) == e.id \in leftIds
              made(e) == e.id[1] > x.gen
          IN  /\ model.mods[pos + 1].left.type = "None"
              /\ ~Failed(x')
              /\ x'.shape = x.shape
              /\ \A j \in 0..(half - 1) :
                    /\ x'.data[2 * j + 1] = x.data[j + 1]
                    /\ made(x'.data[2 * j + 2])
                    /\ x'.data[2 * j + 2].id[2] = j
                    /\ rightIds \subseteq x'.data[2 * j + 2].deps
                    /\ x'.data[2 * j + 2].deps \cap leftIds = {}
              /\ \E i, j \in 1..half :
                    passed(x'.data[i]) /\ made(x'.data[j])
              /\ \E i, j \in (half + 1)..C :
                    passed(x'.data[i]) /\ made(x'.data[j])
      ]_vars

\* Two stride-1 blocks on 4 channels have run: channel 0 is still the first
\* block's, channel 1 is the last block's right output 0, and channel 2 is the
\* block before's right output 0, passed through by the last block.
C9_Witness ==
    /\ status = "done"
    /\ pos = 3
    /\ args.block_channels[2] = 4
    /\ x.data[1] = FirstOut.data[1]
    /\ x.data[2].id[2] = 0
    /\ x.data[2].id \notin IdsOf(FirstOut.data)
    /\ x.data[3].id \notin IdsOf(FirstOut.data)
    /\ x.data[3].id[2] = 0
    /\ FirstOut.data[3].id \in x.data[3].deps
    /\ FirstOut.data[2].id \in x.data[2].deps

\* C10: after n >= 1 stride-1 blocks (blocks 2..d of a stage) output channel 0
\* is exactly channel 0 of the tensor that entered the first of them, never
\* transformed, and no other output channel is computed from it.
C10_ChannelZero ==
    (status \in {"running", "done"} /\ pos >= 2)
    => /\ x.data[1] = FirstOut.data[1]
       /\ \A k \in 2..Len(x.data) : FirstOut.data[1].id \notin x.data[k].deps

C10_Witness ==
    /\ status = "done"
    /\ pos = 3
    /\ args.block_channels[2] = 6
    /\ Len(x.data) = 6
    /\ x.data[1] = FirstOut.data[1]
    /\ x.data[2].id \notin IdsOf(FirstOut.data)
    /\ \A k \in 2..6 : FirstOut.data[1].id \notin x.data[k].deps

====
